---- MODULE Spec2Model ----
\* OpenIDProvider.authenticate (mealie/core/security/providers/openid_provider.py)
\* modelled as a state machine over the user table, the process-wide settings and
\* the position of each authenticate call between its repository operations.
EXTENDS Integers, FiniteSets, Sequences, TLC

VARIABLES
    settings,   \* get_app_settings(): the OIDC_* options, fixed for a behaviour
    db,         \* the users table: a set of rows
    call        \* call[p]: the locals of the authenticate call running in slot p

vars == <<settings, db, call>>

----------------------------------------------------------------------------
\* Values

\* a key that is not in the claims mapping
Absent == "<absent>"
\* a key that is present with the value None
Null == "<none>"
\* Python's None for a user that was not found / not created
NoUser == [id |-> 0]

NumNames == 2
NamePool == <<"a", "b", "c">>
\* the text values a username-like claim can carry
Names == {NamePool[i] : i \in 1..NumNames}

ClaimKeys == {"name", "email", "sub", "preferred_username", "username", "groups"}

\* AuthMethod.OIDC and one other member of the enum
OIDC == "OIDC"
MEALIE == "Mealie"

\* the slots an authenticate call can run in; Spec runs one call at a time
Procs == {1, 2}
SeqProcs == {1}

\* truthiness of a setting (None and "" are falsy)
Truthy(x) == x \notin {"", Null, Absent}

SettingsSet ==
    [ OIDC_REQUIRES_GROUP_CLAIM : BOOLEAN,
      OIDC_GROUPS_CLAIM : {"groups"},
      OIDC_ADMIN_GROUP : {"", "admins"},
      OIDC_USER_GROUP : {"", "users"},
      OIDC_USER_CLAIM : {"sub", "username"},
      OIDC_NAME_CLAIM : {"name"},
      OIDC_SIGNUP_ENABLED : BOOLEAN ]

\* a groups claim value is a list of group names; the lists that occur
GroupLists == {"[]", "[admins]", "[users]", "[admins,users]"}

\* the members of a groups claim value
Members(list) ==
    CASE list = "[admins]" -> {"admins"}
      [] list = "[users]" -> {"users"}
      [] list = "[admins,users]" -> {"admins", "users"}
      [] OTHER -> {}

\* the claims mappings handed to the provider (self.data)
ClaimsSet ==
    { [ name |-> n, email |-> e, sub |-> s, preferred_username |-> pu,
        username |-> un, groups |-> g ] :
        n \in {Absent, "N"}, e \in {Absent, "e@x"}, s \in {Absent} \cup Names,
        pu \in {Absent} \cup Names, un \in {Absent} \cup Names,
        g \in {Absent, Null} \cup GroupLists }

\* claims.keys()
Keys(claims) == {k \in ClaimKeys : claims[k] # Absent}

\* claims.get(key, default)
Get(claims, key, default) ==
    IF key \in ClaimKeys /\ claims[key] # Absent THEN claims[key] ELSE default

----------------------------------------------------------------------------
\* The users table

User(id, username, full_name, email, admin, auth_method, password) ==
    [ id |-> id, username |-> username, full_name |-> full_name, email |-> email,
      admin |-> admin, auth_method |-> auth_method, password |-> password ]

\* the tables a behaviour can start from: empty, or one user "a" provisioned
\* earlier, by OIDC or by password sign-up, admin or not
InitialTables ==
    {{}} \cup { {User(1, "a", "S", "s@x", adm, m, IF m = OIDC THEN "OIDC" ELSE "hash")} :
                 adm \in BOOLEAN, m \in {OIDC, MEALIE} }

\* the unique index on users.username
UsernameTaken(username) == \E u \in db : u.username = username

\* AuthProvider.try_get_user: the user with this username and auth-method OIDC
try_get_user(username) ==
    LET found == {u \in db : u.username = username /\ u.auth_method = OIDC}
    IN IF found = {} THEN NoUser ELSE CHOOSE u \in found : TRUE

\* repos.users.update(id, user): the row with this id becomes the given user
RowsAfterUpdate(id, user) ==
    {IF u.id = id THEN user ELSE u : u \in db}

----------------------------------------------------------------------------
\* The decisions of authenticate

\* a required set that asks for the groups claim whatever the settings say
required_claims_with_groups ==
    {settings.OIDC_NAME_CLAIM, "email", settings.OIDC_USER_CLAIM, settings.OIDC_GROUPS_CLAIM}

\* the required_claims property
required_claims ==
    {settings.OIDC_NAME_CLAIM, "email", settings.OIDC_USER_CLAIM}
        \cup (IF settings.OIDC_REQUIRES_GROUP_CLAIM THEN {settings.OIDC_GROUPS_CLAIM} ELSE {})

\* group_claim = claims.get(settings.OIDC_GROUPS_CLAIM, []) or []
group_claim(claims) ==
    LET v == Get(claims, settings.OIDC_GROUPS_CLAIM, "[]")
    IN IF v = Null THEN {} ELSE Members(v)

\* is_admin as computed by lines 40-46
is_admin_of(claims) ==
    IF settings.OIDC_REQUIRES_GROUP_CLAIM
    THEN IF Truthy(settings.OIDC_ADMIN_GROUP)
         THEN settings.OIDC_ADMIN_GROUP \in group_claim(claims)
         ELSE FALSE
    ELSE FALSE

\* a user-group test that does not default to valid when USER_GROUP is unset
is_valid_user_strict(claims) ==
    settings.OIDC_USER_GROUP \in group_claim(claims)

\* is_valid_user as computed by line 51
is_valid_user_of(claims) ==
    IF Truthy(settings.OIDC_USER_GROUP)
    THEN settings.OIDC_USER_GROUP \in group_claim(claims)
    ELSE TRUE

\* lines 26-61: the checks made before the repository is touched
Precheck(claims) ==
    IF Keys(claims) = {} THEN "no_claims"
    ELSE IF ~(required_claims \subseteq Keys(claims)) THEN "missing_claims"
    ELSE IF /\ settings.OIDC_REQUIRES_GROUP_CLAIM
            /\ ~(is_valid_user_of(claims) \/ is_admin_of(claims))
         THEN "no_group"
    ELSE "pass"

\* a precedence that prefers the username claim to preferred_username
derived_username_swapped(claims) ==
    Get(claims, "username",
        Get(claims, "preferred_username", Get(claims, settings.OIDC_USER_CLAIM, Null)))

\* lines 74-76: the username a new user is created with
derived_username(claims) ==
    Get(claims, "preferred_username",
        Get(claims, "username", Get(claims, settings.OIDC_USER_CLAIM, Null)))

\* lines 78-85: the row handed to repos.users.create
new_user(claims, is_admin) ==
    User(0, derived_username(claims), Get(claims, settings.OIDC_NAME_CLAIM, Null),
         Get(claims, "email", Null), is_admin, OIDC, "OIDC")

\* a signup switch that is never off
signup_never_disabled == FALSE

\* line 65: if not settings.OIDC_SIGNUP_ENABLED
signup_disabled == ~settings.OIDC_SIGNUP_ENABLED

\* a sync that promotes but never demotes
admin_promote_only(user, is_admin) ==
    Truthy(settings.OIDC_ADMIN_GROUP) /\ is_admin /\ ~user.admin

\* line 96: whether the stored admin flag is rewritten
admin_out_of_sync(user, is_admin) ==
    Truthy(settings.OIDC_ADMIN_GROUP) /\ user.admin # is_admin

----------------------------------------------------------------------------
\* One authenticate call

EmptyClaims ==
    [ name |-> Absent, email |-> Absent, sub |-> Absent, preferred_username |-> Absent,
      username |-> Absent, groups |-> Absent ]

\* the locals of a call that has not started
IdleCall ==
    [ pc |-> "idle", claims |-> EmptyClaims, is_admin |-> FALSE, existing |-> NoUser,
      user |-> NoUser, result |-> "none", token_user |-> NoUser, looked |-> FALSE, created |-> FALSE,
      committed |-> FALSE, updated |-> FALSE, fault |-> "none", again |-> FALSE ]

\* return None
Refuse(c) == [c EXCEPT !.pc = "done", !.result = "refused"]

\* an exception that leaves authenticate
Raise(c) == [c EXCEPT !.pc = "done", !.result = "raised"]

\* return self.get_access_token(user, settings.OIDC_REMEMBER_ME)
Token(c, user) == [c EXCEPT !.pc = "done", !.result = "token", !.token_user = user]

\* a handler that lets the exception through
CreationRaises(c) == Raise(c)

\* a handler that swallows the exception and falls through to the token
CreationFallsThrough(c) == Token(c, c.user)

\* lines 89-91: the handler around create and commit
CreationFailed(c) == Refuse(c)

\* lines 24-61: a call starts with its claims and runs up to the user lookup
Enter(p, claims) ==
    LET c == [IdleCall EXCEPT
                !.claims = claims,
                !.again = /\ call[p].pc = "done"
                          /\ call[p].committed
                          /\ call[p].result = "token"
                          /\ call[p].claims = claims]
    IN call' = [call EXCEPT ![p] =
                  IF Precheck(claims) = "pass"
                  THEN [c EXCEPT !.pc = "lookup", !.is_admin = is_admin_of(claims)]
                  ELSE Refuse(c)]

\* a call starts with any claims
Begin(p) ==
    /\ call[p].pc = "idle"
    /\ \E claims \in ClaimsSet : Enter(p, claims)
    /\ UNCHANGED <<settings, db>>

\* the caller comes back with the claims of the call that has just returned
Repeat(p) ==
    /\ call[p].pc = "done"
    /\ Enter(p, call[p].claims)
    /\ UNCHANGED <<settings, db>>

\* the request is over and its provider is dropped
Return(p) ==
    /\ call[p].pc = "done"
    /\ call' = [call EXCEPT ![p] = IdleCall]
    /\ UNCHANGED <<settings, db>>

\* the claims of the calls that race: complete, with a user claim and the
\* optional username claims
RacingClaims ==
    { c \in ClaimsSet :
        /\ c.name # Absent /\ c.email # Absent /\ c.sub # Absent
        /\ c.username = Absent
        /\ c.preferred_username \in {Absent, "a"}
        /\ c.groups \in {Null, "[admins,users]"} }

\* ConcurrentSpec: a call starts while another may be running
BeginConcurrent(p) ==
    /\ call[p].pc = "idle"
    /\ \E claims \in RacingClaims : Enter(p, claims)
    /\ UNCHANGED <<settings, db>>

\* lines 63-67: user = self.try_get_user(...), and the signup switch
Lookup(p) ==
    /\ call[p].pc = "lookup"
    /\ \E fails \in BOOLEAN :
         LET c == [call[p] EXCEPT !.looked = TRUE]
             user == try_get_user(Get(c.claims, settings.OIDC_USER_CLAIM, Null))
         IN call' = [call EXCEPT ![p] =
                IF fails THEN Raise([c EXCEPT !.fault = "lookup"])
                ELSE IF user = NoUser
                     THEN IF signup_disabled
                          THEN Refuse(c)
                          ELSE [c EXCEPT !.pc = "create"]
                     ELSE [c EXCEPT !.pc = "found", !.existing = user, !.user = user]]
    /\ UNCHANGED <<settings, db>>

\* lines 71-86: user = repos.users.create({...})
Create(p) ==
    /\ call[p].pc = "create"
    /\ \E fails \in BOOLEAN :
         LET c == [call[p] EXCEPT !.created = TRUE]
             user == new_user(c.claims, c.is_admin)
         IN call' = [call EXCEPT ![p] =
                IF fails THEN CreationFailed([c EXCEPT !.fault = "create"])
                ELSE IF UsernameTaken(user.username) THEN CreationFailed(c)
                ELSE [c EXCEPT !.pc = "commit", !.user = user]]
    /\ UNCHANGED <<settings, db>>

\* lines 87-93: self.session.commit(), then the token for the new user
Commit(p) ==
    /\ call[p].pc = "commit"
    /\ \E fails \in BOOLEAN :
         LET c == call[p]
             user == [c.user EXCEPT !.id = Cardinality(db) + 1]
         IN IF fails \/ UsernameTaken(user.username)
            THEN /\ call' = [call EXCEPT ![p] =
                       CreationFailed([c EXCEPT !.user = NoUser,
                                                !.fault = IF fails THEN "commit" ELSE "none"])]
                 /\ db' = db
            ELSE /\ db' = db \cup {user}
                 /\ call' = [call EXCEPT ![p] =
                       Token([c EXCEPT !.committed = TRUE, !.user = user], user)]
    /\ UNCHANGED settings

\* lines 95-100: the admin flag of an existing user, then the token
Found(p) ==
    /\ call[p].pc = "found"
    /\ LET c == call[p]
           user == [c.user EXCEPT !.admin = c.is_admin]
       IN IF admin_out_of_sync(c.user, c.is_admin)
          THEN \E fails \in BOOLEAN :
                 IF fails
                 THEN /\ call' = [call EXCEPT ![p] = Raise([c EXCEPT !.fault = "update"])]
                      /\ db' = db
                 ELSE /\ db' = RowsAfterUpdate(user.id, user)
                      /\ call' = [call EXCEPT ![p] =
                            Token([c EXCEPT !.updated = TRUE], user)]
          ELSE /\ db' = db
               /\ call' = [call EXCEPT ![p] = Token(c, c.user)]
    /\ UNCHANGED settings

Init ==
    /\ settings \in SettingsSet
    /\ db \in InitialTables
    /\ call = [p \in Procs |-> IdleCall]

Next ==
    \E p \in SeqProcs :
        \/ Begin(p) \/ Lookup(p) \/ Create(p) \/ Commit(p) \/ Found(p)
        \/ Repeat(p) \/ Return(p)

Spec == Init /\ [][Next]_vars

\* two requests served at once, each with its own provider and session
ConcurrentNext ==
    \E p \in Procs :
        \/ BeginConcurrent(p) \/ Lookup(p) \/ Create(p) \/ Commit(p) \/ Found(p)
        \/ Return(p)

ConcurrentSpec == Init /\ [][ConcurrentNext]_vars

----------------------------------------------------------------------------
\* Properties

\* C1 (as stated): after every login of an existing user with group-checking
\* enabled, the stored admin flag equals "ADMIN_GROUP configured and ADMIN_GROUP in
\* the group list", whether or not ADMIN_GROUP is configured.
C1_StoredAdminFollowsGroupsAlways ==
    \A p \in Procs :
        LET c == call[p]
            groups == IF c.claims.groups \in GroupLists THEN Members(c.claims.groups) ELSE {}
            expected == /\ settings.OIDC_ADMIN_GROUP # ""
                        /\ settings.OIDC_ADMIN_GROUP \in groups
        IN (/\ c.pc = "done" /\ c.result = "token" /\ c.existing # NoUser
            /\ settings.OIDC_REQUIRES_GROUP_CLAIM)
           => \A u \in db : u.id = c.existing.id => u.admin = expected

\* C1 (amended): after a login of an existing user with group-checking enabled,
\* if ADMIN_GROUP is configured the stored admin flag equals "ADMIN_GROUP in the
\* group list", and it was rewritten exactly when it differed; if ADMIN_GROUP is
\* not configured the stored row is left as it was found.
C1_StoredAdminFollowsConfiguredGroup ==
    \A p \in Procs :
        LET c == call[p]
            groups == IF c.claims.groups \in GroupLists THEN Members(c.claims.groups) ELSE {}
            expected == settings.OIDC_ADMIN_GROUP \in groups
        IN (/\ c.pc = "done" /\ c.result = "token" /\ c.existing # NoUser
            /\ settings.OIDC_REQUIRES_GROUP_CLAIM)
           => IF settings.OIDC_ADMIN_GROUP # ""
              THEN /\ \A u \in db : u.id = c.existing.id => u.admin = expected
                   /\ c.updated <=> (c.existing.admin # expected)
                   /\ c.token_user.admin = expected
              ELSE /\ c.existing \in db
                   /\ ~c.updated

\* C1 witness: a login that rewrote the stored admin flag of an existing user
C1_Witness ==
    \E p \in Procs :
        /\ call[p].pc = "done" /\ call[p].result = "token"
        /\ settings.OIDC_REQUIRES_GROUP_CLAIM
        /\ call[p].existing # NoUser /\ call[p].updated
        /\ call[p].existing.admin /\ ~call[p].token_user.admin

\* C2: with group-checking enabled and the required claims present, the call
\* goes on to the user lookup iff USER_GROUP is unconfigured or in the group list,
\* or ADMIN_GROUP is configured and in the group list; otherwise it is refused
\* before any lookup, create or update.
C2_GroupCheck ==
    \A p \in Procs :
        LET c == call[p]
            groups == IF c.claims.groups \in GroupLists THEN Members(c.claims.groups) ELSE {}
            allowed == \/ settings.OIDC_USER_GROUP = ""
                       \/ settings.OIDC_USER_GROUP \in groups
                       \/ /\ settings.OIDC_ADMIN_GROUP # ""
                          /\ settings.OIDC_ADMIN_GROUP \in groups
            required == {settings.OIDC_NAME_CLAIM, "email", settings.OIDC_USER_CLAIM,
                         settings.OIDC_GROUPS_CLAIM}
        IN (/\ c.pc # "idle"
            /\ settings.OIDC_REQUIRES_GROUP_CLAIM
            /\ \A k \in required : c.claims[k] # Absent)
           => IF allowed
              THEN c.pc = "lookup" \/ c.looked
              ELSE /\ c.pc = "done" /\ c.result = "refused"
                   /\ ~c.looked /\ ~c.created /\ ~c.committed /\ ~c.updated

\* C2 witness: both groups configured, the user is in neither, and is refused
C2_Witness ==
    \E p \in Procs :
        /\ call[p].pc = "done" /\ call[p].result = "refused" /\ ~call[p].looked
        /\ settings.OIDC_REQUIRES_GROUP_CLAIM
        /\ settings.OIDC_USER_GROUP = "users" /\ settings.OIDC_ADMIN_GROUP = "admins"
        /\ call[p].claims.groups = "[]"
        /\ \A k \in {"name", "email", settings.OIDC_USER_CLAIM} : call[p].claims[k] # Absent

\* C3: a user whose username is the USER_CLAIM value but whose auth-method is
\* not OIDC is treated as not found: the call refuses without creating when signup
\* is disabled, otherwise it attempts a creation that ends in a token for an OIDC
\* user or in a refusal, never in an exception; no such row is ever modified.
C3_OtherAuthMethodNotFound ==
    /\ \A u \in db : u.auth_method # OIDC => {u} \in InitialTables
    /\ \A p \in Procs :
        LET c == call[p]
            key == c.claims[settings.OIDC_USER_CLAIM]
        IN (/\ c.looked /\ c.fault # "lookup"
            /\ \E u \in db : u.username = key /\ u.auth_method # OIDC)
           => /\ c.existing = NoUser /\ c.pc # "found" /\ ~c.updated
              /\ c.pc = "done" =>
                   /\ c.result \in {"token", "refused"}
                   /\ ~settings.OIDC_SIGNUP_ENABLED => (c.result = "refused" /\ ~c.created)
                   /\ settings.OIDC_SIGNUP_ENABLED => c.created
                   /\ c.result = "token" =>
                        /\ c.token_user \in db
                        /\ c.token_user.auth_method = OIDC
                        /\ c.token_user.username # key

\* C3 witness: signup enabled, the username is held by a password user, and the
\* creation under that same username was refused
C3_Witness ==
    \E p \in Procs :
        /\ call[p].pc = "done" /\ call[p].result = "refused"
        /\ call[p].created /\ call[p].fault = "none"
        /\ \E u \in db : /\ u.username = call[p].claims[settings.OIDC_USER_CLAIM]
                         /\ u.auth_method # OIDC
                         /\ u.username = derived_username(call[p].claims)

\* C4 (as stated): a call in which the lookup, the create, the commit or the
\* update failed returns refusal and issues no token.
C4_NoPersistenceFailureEscapes ==
    \A p \in Procs :
        (call[p].pc = "done" /\ call[p].fault # "none")
            => (call[p].result = "refused" /\ call[p].token_user = NoUser)

\* C5: no existing user, signup enabled, persistence succeeds: exactly one user
\* is created, named by the first present of preferred_username, username and
\* USER_CLAIM, with full name, email, admin flag = is_admin and auth-method OIDC,
\* and the token is for that user.
C5_ProvisionedUser ==
    \A p \in Procs :
        LET c == call[p]
            cl == c.claims
            name == IF cl.preferred_username # Absent THEN cl.preferred_username
                    ELSE IF cl.username # Absent THEN cl.username
                    ELSE cl[settings.OIDC_USER_CLAIM]
            groups == IF cl.groups \in GroupLists THEN Members(cl.groups) ELSE {}
            admin == /\ settings.OIDC_REQUIRES_GROUP_CLAIM
                     /\ settings.OIDC_ADMIN_GROUP # ""
                     /\ settings.OIDC_ADMIN_GROUP \in groups
            rows == {u \in db : u.username = name}
            persisted == c.fault = "none" /\ (~c.committed => rows = {})
        IN (/\ c.pc = "done" /\ c.looked /\ c.fault # "lookup" /\ c.existing = NoUser
            /\ settings.OIDC_SIGNUP_ENABLED /\ persisted)
           => /\ c.created /\ c.committed /\ c.result = "token"
              /\ Cardinality(rows) = 1
              /\ \A u \in rows :
                    /\ u.full_name = cl[settings.OIDC_NAME_CLAIM]
                    /\ u.email = cl.email
                    /\ u.admin = admin
                    /\ u.auth_method = OIDC
                    /\ u.id = Cardinality(db)
                    /\ c.token_user = u
              /\ Cardinality({u.id : u \in db}) = Cardinality(db)

\* C5 witness: a user provisioned under preferred_username although the username
\* claim and the user claim carry other values, as an admin
C5_Witness ==
    \E p \in Procs :
        /\ call[p].pc = "done" /\ call[p].committed /\ call[p].result = "token"
        /\ call[p].claims.preferred_username = "b"
        /\ call[p].claims.username = "a"
        /\ call[p].claims.sub = "a"
        /\ call[p].token_user.username = "b"
        /\ call[p].token_user.admin

\* C6: no existing user and signup disabled: the lookup step ends the call with
\* a refusal and leaves the users table as it was.
C6_NoSignupNoWrite ==
    [][\A p \in Procs :
          (/\ call[p].pc = "lookup" /\ call'[p].looked
           /\ call'[p].fault = "none" /\ call'[p].existing = NoUser
           /\ ~settings.OIDC_SIGNUP_ENABLED)
          => /\ call'[p].pc = "done" /\ call'[p].result = "refused"
             /\ ~call'[p].created /\ ~call'[p].committed /\ ~call'[p].updated
             /\ db' = db]_vars

\* C6 witness: a call refused after a lookup that found nobody, signup disabled
C6_Witness ==
    \E p \in Procs :
        /\ call[p].pc = "done" /\ call[p].result = "refused"
        /\ call[p].looked /\ call[p].fault = "none" /\ call[p].existing = NoUser
        /\ ~settings.OIDC_SIGNUP_ENABLED
        /\ db = {}

\* C7: empty claims, or claims lacking a key of {NAME_CLAIM, "email", USER_CLAIM}
\* or, when group-checking is enabled, GROUPS_CLAIM, are refused before any
\* lookup or write; with group-checking disabled GROUPS_CLAIM is not required.
C7_RequiredClaims ==
    \A p \in Procs :
        LET c == call[p]
            present == {k \in ClaimKeys : c.claims[k] # Absent}
            base == {settings.OIDC_NAME_CLAIM, "email", settings.OIDC_USER_CLAIM}
            required == IF settings.OIDC_REQUIRES_GROUP_CLAIM
                        THEN base \cup {settings.OIDC_GROUPS_CLAIM}
                        ELSE base
        IN c.pc # "idle" =>
             /\ (present = {} \/ ~(required \subseteq present))
                  => /\ c.pc = "done" /\ c.result = "refused"
                     /\ ~c.looked /\ ~c.created /\ ~c.committed /\ ~c.updated
             /\ (~settings.OIDC_REQUIRES_GROUP_CLAIM /\ base \subseteq present)
                  => (c.pc = "lookup" \/ c.looked)

\* C7 witness: group-checking enabled and only the groups claim is missing
C7_Witness ==
    \E p \in Procs :
        /\ call[p].pc = "done" /\ call[p].result = "refused" /\ ~call[p].looked
        /\ settings.OIDC_REQUIRES_GROUP_CLAIM
        /\ call[p].claims.groups = Absent
        /\ \A k \in {"name", "email", settings.OIDC_USER_CLAIM} : call[p].claims[k] # Absent

\* C8 (as stated): with group-checking disabled a login leaves the stored admin
\* flag of the existing user as it was and performs no update, whatever
\* ADMIN_GROUP is.
C8_NoAdminChangeWithoutGroupCheck ==
    \A p \in Procs :
        LET c == call[p]
        IN (/\ c.pc = "done" /\ c.existing # NoUser
            /\ ~settings.OIDC_REQUIRES_GROUP_CLAIM)
           => /\ ~c.updated
              /\ \A u \in db : u.id = c.existing.id => u.admin = c.existing.admin

\* C9: two concurrent calls that both attempt to create the same username leave
\* at most one row with that username, and the one whose creation failed returns
\* refusal: no exception, no token.
C9_DuplicateSignupRace ==
    \A p, q \in Procs :
        LET name == derived_username(call[p].claims)
        IN (/\ p # q
            /\ call[p].pc = "done" /\ call[q].pc = "done"
            /\ call[p].created /\ call[q].created
            /\ derived_username(call[q].claims) = name)
           => /\ Cardinality({u \in db : u.username = name}) <= 1
              /\ \A r \in {p, q} :
                    ~call[r].committed =>
                        (call[r].result = "refused" /\ call[r].token_user = NoUser)

\* C9 witness: both calls found nobody and attempted the creation; one committed
\* and the other was refused by the unique index alone
C9_Witness ==
    \E p, q \in Procs :
        /\ p # q
        /\ call[p].pc = "done" /\ call[q].pc = "done"
        /\ call[p].committed /\ call[p].result = "token"
        /\ call[q].created /\ ~call[q].committed /\ call[q].fault = "none"
        /\ call[q].user = NoUser
        /\ call[q].result = "refused"
        /\ derived_username(call[p].claims) = derived_username(call[q].claims)
        /\ Cardinality(db) = 1

\* C10 (as stated): a call repeated with the same claims right after it
\* provisioned a user finds that user, creates nothing and returns a token.
C10_RepeatedLoginFindsProvisionedUser ==
    \A p \in Procs :
        LET c == call[p]
        IN (c.pc = "done" /\ c.again /\ c.fault = "none")
           => /\ c.existing # NoUser
              /\ c.existing.username = derived_username(c.claims)
              /\ ~c.created
              /\ c.result = "token"

====
